---- MODULE Spec2Model ----
(***************************************************************************)
(* Workout tracker (Leaf-API-and-Map-Pining-JS): the App class of          *)
(* src/js/classconversion.js with its Workout / Running / Cycling records  *)
(* and the validNumber helper of src/js/utils.js, as a state machine.      *)
(*                                                                         *)
(* One action per event the browser delivers to the program: the settling  *)
(* of the geolocation promise awaited by _init, a Leaflet map click, a     *)
(* change of the type <select>, a form submit, and the user typing into    *)
(* one of the four numeric inputs.                                         *)
(***************************************************************************)
EXTENDS Integers, Sequences, FiniteSets, TLC

\* ------------------------------------------------------------------------
\* Bounds of the model
\* ------------------------------------------------------------------------

\* the record list stops growing at this length
MaxWorkouts == 2

\* ------------------------------------------------------------------------
\* JavaScript numbers: finite rationals n/d (d > 0, lowest terms), NaN and
\* the two infinities (n = 1 or -1)
\* ------------------------------------------------------------------------

RECURSIVE Gcd(_, _)
Gcd(a, b) == IF b = 0 THEN a ELSE Gcd(b, a % b)

Abs(a) == IF a < 0 THEN -a ELSE a

Sign(a) == IF a < 0 THEN -1 ELSE 1

NaN == [k |-> "nan", n |-> 0, d |-> 1]

Infinity(s) == [k |-> "inf", n |-> s, d |-> 1]

\* the finite number n/d, d # 0, normalised
Ratio(n, d) ==
  LET g == Gcd(Abs(n), Abs(d))
  IN  [k |-> "fin", n |-> (Sign(d) * n) \div g, d |-> Abs(d) \div g]

Num(n) == Ratio(n, 1)

\* Number.isFinite(x)
NumberIsFinite(x) == x.k = "fin"

\* x > 0 on numbers (false for NaN)
GreaterThanZero(x) == x.k # "nan" /\ x.n > 0

\* a / b on numbers
Divide(a, b) ==
  IF a.k = "nan" \/ b.k = "nan" THEN NaN
  ELSE IF a.k = "inf"
    THEN IF b.k = "inf" THEN NaN ELSE Infinity(a.n * Sign(b.n))
  ELSE IF b.k = "inf" THEN Num(0)
  ELSE IF b.n = 0
    THEN IF a.n = 0 THEN NaN ELSE Infinity(Sign(a.n))
  ELSE Ratio(a.n * b.d, a.d * b.n)

\* the decimal literals the user types in this model, with their values
Literals ==
  [t \in {"0", "5", "-5", "10", "-10", "25", "160"} |->
     CASE t = "0" -> 0 [] t = "5" -> 5 [] t = "-5" -> -5 [] t = "10" -> 10
       [] t = "-10" -> -10 [] t = "25" -> 25 [] t = "160" -> 160]

\* unary plus on the text of an input: +input.value
ToNumber(text) ==
  IF text = "" THEN Num(0)
  ELSE IF text \in DOMAIN Literals THEN Num(Literals[text])
  ELSE IF text = "Infinity" THEN Infinity(1)
  ELSE IF text = "-Infinity" THEN Infinity(-1)
  ELSE NaN

\* validNumber without the Number.isFinite test
validNumberWithoutIsFinite(args) ==
  \A i \in 1..Len(args) : GreaterThanZero(args[i])

\* validNumber with ">= 0" in place of "> 0"
validNumberAllowingZero(args) ==
  \A i \in 1..Len(args) : NumberIsFinite(args[i]) /\ args[i].n >= 0

\* validNumber(...anyAmountOfArgs)
validNumber(args) ==
  \A i \in 1..Len(args) : NumberIsFinite(args[i]) /\ GreaterThanZero(args[i])

\* ------------------------------------------------------------------------
\* Program constants and the values the environment supplies
\* ------------------------------------------------------------------------

\* Workout.id keeps the last six decimal digits of Date.now()
IdModulus == 1000000

\* readings of the millisecond clock (relative to page load)
Times == {0, 1, IdModulus}

\* the options of the type <select>
TypeOptions == {"running", "cycling"}

\* map positions [lat, lng] in tenths of a degree; <<515, -1>> is (51.5, -0.1)
Positions == {<<515, -1>>, <<400, 30>>}

\* the position the geolocation request resolves with
GeoFixes == {<<515, -1>>}

\* texts typed into the four numeric inputs while the app runs
DistanceTexts == {"", "5", "-5"}
DurationTexts == {"", "25"}
CadenceTexts == {"", "160"}
ElevationTexts == {"", "10", "-10"}

\* texts a filled-in form may hold in any of its numeric inputs: empty, zero,
\* positive, negative, not a number, infinite
FormTexts == {"", "0", "5", "25", "-5", "abc", "Infinity"}

\* reasons _getCurrentLocation rejects with
GeoErrors == {"Geolocation is not supported by this browser.", "denied"}

\* null (lastClickedPosition, currentLat/currentLong before they are set)
Null == <<>>

\* the four alert texts of _validateWorkoutData
AlertDistanceDuration == "Please enter positive numbers for distance and duration."
AlertElevation == "Please enter a positive number for elevation."
AlertCadence == "Please enter a positive number for cadence."
AlertLocation == "Please click on the map to select a location."

\* ------------------------------------------------------------------------
\* The workout records
\* ------------------------------------------------------------------------

\* the id cut from the clock in seconds instead of milliseconds
WorkoutIdFromSeconds(t) == (t \div 1000) % IdModulus

\* Workout field initialiser: id = +Date.now().toString().slice(-6)
WorkoutId(t) == t % IdModulus

\* calcPace as plain minutes per kilometre: duration / distance
calcPaceWithoutSixty(distance, duration) == Divide(duration, distance)

\* Running.calcPace
calcPace(distance, duration) == Divide(duration, Divide(distance, Num(60)))

\* Cycling.calcSpeed
calcSpeed(distance, duration) == Divide(distance, duration)

\* new Running(coords, distance, duration, cadence), built at clock reading t
Running(coords, distance, duration, cadence, t) ==
  [cls |-> "Running", id |-> WorkoutId(t), coords |-> coords,
   distance |-> distance, duration |-> duration, cadence |-> cadence,
   pace |-> calcPace(distance, duration)]

\* new Cycling(coords, distance, duration, elevationGain), built at clock reading t
Cycling(coords, distance, duration, elevationGain, t) ==
  [cls |-> "Cycling", id |-> WorkoutId(t), coords |-> coords,
   distance |-> distance, duration |-> duration,
   elevationGain |-> elevationGain,
   speed |-> calcSpeed(distance, duration)]

\* the value of "let currentWorkout;" when no branch assigns it
Undefined == [cls |-> "undefined"]

\* ------------------------------------------------------------------------
\* State
\* ------------------------------------------------------------------------

VARIABLES
  geo,                 \* the promise of _getCurrentLocation: pending / resolved / rejected
  current,             \* <<currentLat, currentLong>>, Null until resolved
  map,                 \* this.map is set (TRUE) or null (FALSE)
  clickBound,          \* the map click handler is registered
  handlersBound,       \* the submit and change handlers are registered
  console,             \* what _init wrote to the console
  formHidden,          \* form.classList contains "hidden"
  cadenceRowHidden,    \* the cadence row has form__row--hidden
  elevationRowHidden,  \* the elevation row has form__row--hidden
  focused,             \* inputDistance was given the focus by a map click
  inputType,           \* inputType.value
  inputDistance,       \* inputDistance.value
  inputDuration,       \* inputDuration.value
  inputCadence,        \* inputCadence.value
  inputElevation,      \* inputElevation.value
  lastClickedPosition, \* this.lastClickedPosition
  isWorkoutValid,      \* this.isWorkoutValid
  locations,           \* this.#locations
  markers,             \* the markers added to the map by _addMarkers
  alerts,              \* the alerts raised by the latest event
  now,                 \* the latest reading of Date.now()
  lastClickEvent,      \* history: latlng of the latest click event, Null if none
  formShown,           \* history: the form has been revealed at least once
  storage,             \* the browser's durable slot: a list of stored entries
  beforeReload,        \* history: this.#locations when the page was last reloaded
  idClock              \* history: the Date.now() reading each record's id was cut from

inputs == <<inputDistance, inputDuration, inputCadence, inputElevation>>

rows == <<cadenceRowHidden, elevationRowHidden>>

startup == <<geo, current, map, clickBound, handlersBound, console>>

durable == <<storage, beforeReload>>

vars == <<startup, formHidden, rows, focused, inputType, inputs,
          lastClickedPosition, isWorkoutValid, locations, markers, alerts,
          now, lastClickEvent, formShown, durable, idClock>>

\* the App constructor, up to the await in _init; the markup decides the
\* default option and which row starts hidden
Init ==
  /\ geo = "pending"
  /\ current = Null
  /\ map = FALSE
  /\ clickBound = FALSE
  /\ handlersBound = FALSE
  /\ console = <<>>
  /\ formHidden = TRUE
  /\ cadenceRowHidden \in BOOLEAN
  /\ elevationRowHidden \in BOOLEAN
  /\ focused = FALSE
  /\ inputType \in TypeOptions
  /\ inputDistance = ""
  /\ inputDuration = ""
  /\ inputCadence = ""
  /\ inputElevation = ""
  /\ lastClickedPosition = Null
  /\ isWorkoutValid = FALSE
  /\ locations = <<>>
  /\ markers = <<>>
  /\ alerts = <<>>
  /\ now = 0
  /\ lastClickEvent = Null
  /\ formShown = FALSE
  /\ storage = Null
  /\ beforeReload = <<>>
  /\ idClock = <<>>

\* ------------------------------------------------------------------------
\* Operations
\* ------------------------------------------------------------------------

\* _init after the awaited promise resolved: _initialiseMap, then
\* _eventHandlers with this.map set
GeoResolved(c) ==
  /\ geo = "pending"
  /\ UNCHANGED <<durable, idClock>>
  /\ geo' = "resolved"
  /\ current' = c
  /\ map' = TRUE
  /\ clickBound' = TRUE
  /\ handlersBound' = TRUE
  /\ alerts' = <<>>
  /\ UNCHANGED <<console, formHidden, rows, focused, inputType, inputs,
                 lastClickedPosition, isWorkoutValid, locations, markers,
                 now, lastClickEvent, formShown>>

\* _init with the call of _eventHandlers inside the try block: a rejection
\* skips it
GeoRejectedWithoutHandlers(err) ==
  /\ geo = "pending"
  /\ UNCHANGED <<durable, idClock>>
  /\ geo' = "rejected"
  /\ console' = Append(console, <<"Location error:", err>>)
  /\ alerts' = <<>>
  /\ UNCHANGED <<current, map, clickBound, handlersBound, formHidden, rows,
                 focused, inputType, inputs, lastClickedPosition,
                 isWorkoutValid, locations, markers, now, lastClickEvent,
                 formShown>>

\* _init whose catch block also creates a map without a centre, so that
\* _eventHandlers registers the click handler after a rejection too
GeoRejectedWithFallbackMap(err) ==
  /\ geo = "pending"
  /\ UNCHANGED <<durable, idClock>>
  /\ geo' = "rejected"
  /\ console' = Append(console, <<"Location error:", err>>)
  /\ map' = TRUE
  /\ clickBound' = TRUE
  /\ handlersBound' = TRUE
  /\ alerts' = <<>>
  /\ UNCHANGED <<current, formHidden, rows, focused, inputType, inputs,
                 lastClickedPosition, isWorkoutValid, locations, markers,
                 now, lastClickEvent, formShown>>

\* _init after the awaited promise rejected: the catch block logs, then
\* _eventHandlers with this.map still null
GeoRejected(err) ==
  /\ geo = "pending"
  /\ UNCHANGED <<durable, idClock>>
  /\ geo' = "rejected"
  /\ console' = Append(console, <<"Location error:", err>>)
  /\ handlersBound' = TRUE
  /\ alerts' = <<>>
  /\ UNCHANGED <<current, map, clickBound, formHidden, rows, focused,
                 inputType, inputs, lastClickedPosition, isWorkoutValid,
                 locations, markers, now, lastClickEvent, formShown>>

\* _updateSelect: the row that ends up with form__row--hidden for a value of
\* the select ("none" when the guard clause finds no entry)
selected(value) ==
  IF value = "cycling" THEN "elevation"
  ELSE IF value = "running" THEN "cadence"
  ELSE "none"

\* _updateSelect without the two classList.remove calls
updateSelectWithoutRemove(value) ==
  <<cadenceRowHidden \/ selected(value) = "cadence",
    elevationRowHidden \/ selected(value) = "elevation">>

\* _updateSelect: <<cadenceRowHidden, elevationRowHidden>> after the call
updateSelect(value) ==
  <<selected(value) = "cadence", selected(value) = "elevation">>

\* _onHandleMapClick revealing the form without the call of _updateSelect
OnHandleMapClickWithoutUpdateSelect(p) ==
  /\ clickBound
  /\ UNCHANGED <<durable, idClock>>
  /\ formHidden' = FALSE
  /\ focused' = TRUE
  /\ lastClickedPosition' = p
  /\ lastClickEvent' = p
  /\ formShown' = TRUE
  /\ alerts' = <<>>
  /\ UNCHANGED <<startup, rows, inputType, inputs, isWorkoutValid, locations,
                 markers, now>>

\* _onHandleMapClick keeping the first clicked position instead of the latest
OnHandleMapClickKeepingFirst(p) ==
  /\ clickBound
  /\ UNCHANGED <<durable, idClock>>
  /\ IF formHidden
       THEN /\ formHidden' = FALSE
            /\ cadenceRowHidden' = updateSelect(inputType)[1]
            /\ elevationRowHidden' = updateSelect(inputType)[2]
       ELSE UNCHANGED <<formHidden, rows>>
  /\ focused' = TRUE
  /\ lastClickedPosition' =
       IF lastClickedPosition = Null THEN p ELSE lastClickedPosition
  /\ lastClickEvent' = p
  /\ formShown' = TRUE
  /\ alerts' = <<>>
  /\ UNCHANGED <<startup, inputType, inputs, isWorkoutValid, locations,
                 markers, now>>

\* _onHandleMapClick writing the click into the existing position array, which
\* the records built from it share, instead of assigning a new array
OnHandleMapClickInPlace(p) ==
  /\ clickBound
  /\ UNCHANGED <<durable, idClock>>
  /\ IF formHidden
       THEN /\ formHidden' = FALSE
            /\ cadenceRowHidden' = updateSelect(inputType)[1]
            /\ elevationRowHidden' = updateSelect(inputType)[2]
       ELSE UNCHANGED <<formHidden, rows>>
  /\ focused' = TRUE
  /\ lastClickedPosition' = p
  /\ locations' = [i \in DOMAIN locations |->
                     IF locations[i].coords = lastClickedPosition
                       THEN [locations[i] EXCEPT !.coords = p]
                       ELSE locations[i]]
  /\ lastClickEvent' = p
  /\ formShown' = TRUE
  /\ alerts' = <<>>
  /\ UNCHANGED <<startup, inputType, inputs, isWorkoutValid, markers, now>>

\* _onHandleMapClick(e), e.latlng = p
OnHandleMapClick(p) ==
  /\ clickBound
  /\ UNCHANGED <<durable, idClock>>
  /\ IF formHidden
       THEN /\ formHidden' = FALSE
            /\ cadenceRowHidden' = updateSelect(inputType)[1]
            /\ elevationRowHidden' = updateSelect(inputType)[2]
       ELSE UNCHANGED <<formHidden, rows>>
  /\ focused' = TRUE
  /\ lastClickedPosition' = p
  /\ lastClickEvent' = p
  /\ formShown' = TRUE
  /\ alerts' = <<>>
  /\ UNCHANGED <<startup, inputType, inputs, isWorkoutValid, locations,
                 markers, now>>

\* the change handler registered by the constructor, before _init awaits the
\* position: every change of the select runs _updateSelect
ChangeTypeHandledFromTheStart(value) ==
  /\ value # inputType
  /\ UNCHANGED <<durable, idClock>>
  /\ inputType' = value
  /\ cadenceRowHidden' = updateSelect(value)[1]
  /\ elevationRowHidden' = updateSelect(value)[2]
  /\ alerts' = <<>>
  /\ UNCHANGED <<startup, formHidden, focused, inputs, lastClickedPosition,
                 isWorkoutValid, locations, markers, now, lastClickEvent,
                 formShown>>

\* the user picks another option of the select; once the change handler is
\* registered the change event runs _updateSelect with the new value
ChangeType(value) ==
  /\ value # inputType
  /\ UNCHANGED <<durable, idClock>>
  /\ inputType' = value
  /\ IF handlersBound
       THEN /\ cadenceRowHidden' = updateSelect(value)[1]
            /\ elevationRowHidden' = updateSelect(value)[2]
       ELSE UNCHANGED rows
  /\ alerts' = <<>>
  /\ UNCHANGED <<startup, formHidden, focused, inputs, lastClickedPosition,
                 isWorkoutValid, locations, markers, now, lastClickEvent,
                 formShown>>

\* the user types a text into one of the four numeric inputs
TypeIntoInput ==
  /\ \/ \E t \in DistanceTexts :
          /\ t # inputDistance
          /\ inputDistance' = t
          /\ UNCHANGED <<inputDuration, inputCadence, inputElevation>>
     \/ \E t \in DurationTexts :
          /\ t # inputDuration
          /\ inputDuration' = t
          /\ UNCHANGED <<inputDistance, inputCadence, inputElevation>>
     \/ \E t \in CadenceTexts :
          /\ t # inputCadence
          /\ inputCadence' = t
          /\ UNCHANGED <<inputDistance, inputDuration, inputElevation>>
     \/ \E t \in ElevationTexts :
          /\ t # inputElevation
          /\ inputElevation' = t
          /\ UNCHANGED <<inputDistance, inputDuration, inputCadence>>
  /\ alerts' = <<>>
  /\ UNCHANGED <<startup, formHidden, rows, focused, inputType,
                 lastClickedPosition, isWorkoutValid, locations, markers,
                 now, lastClickEvent, formShown, durable, idClock>>

\* _validateWorkoutData without its "return false" statements: every failing
\* check raises its alert
validateWorkoutDataWithoutReturns(type, distanceText, durationText, cadenceText, elevationText, position) ==
  LET distance == ToNumber(distanceText)
      duration == ToNumber(durationText)
      cadence == ToNumber(cadenceText)
      elevation == ToNumber(elevationText)
  IN  (IF ~validNumber(<<distance, duration>>)
         THEN <<AlertDistanceDuration>> ELSE <<>>)
      \o (IF type = "running" /\ ~validNumber(<<elevation>>)
            THEN <<AlertElevation>> ELSE <<>>)
      \o (IF type = "cycling" /\ ~validNumber(<<cadence>>)
            THEN <<AlertCadence>> ELSE <<>>)
      \o (IF position = Null THEN <<AlertLocation>> ELSE <<>>)

\* _validateWorkoutData: the alerts it raises, <<>> when it returns true
validateWorkoutData(type, distanceText, durationText, cadenceText, elevationText, position) ==
  LET distance == ToNumber(distanceText)
      duration == ToNumber(durationText)
      cadence == ToNumber(cadenceText)
      elevation == ToNumber(elevationText)
  IN  IF ~validNumber(<<distance, duration>>) THEN <<AlertDistanceDuration>>
      ELSE IF type = "running" /\ ~validNumber(<<elevation>>)
        THEN <<AlertElevation>>
      ELSE IF type = "cycling" /\ ~validNumber(<<cadence>>)
        THEN <<AlertCadence>>
      ELSE IF position = Null THEN <<AlertLocation>>
      ELSE <<>>

\* _submitNewWorkout: the record built from the inputs at clock reading t
currentWorkout(type, position, distanceText, durationText, cadenceText, elevationText, t) ==
  LET distance == ToNumber(distanceText)
      duration == ToNumber(durationText)
      cadence == ToNumber(cadenceText)
      elevationGain == ToNumber(elevationText)
  IN  IF type = "running"
        THEN Running(position, distance, duration, elevationGain, t)
      ELSE IF type = "cycling"
        THEN Cycling(position, distance, duration, cadence, t)
      ELSE Undefined

\* _addMarkers(options): the marker put on the map
addMarkers(position, type, distanceText) ==
  [position |-> position,
   text |-> <<"Workout:", type, "Distance:", ToNumber(distanceText), "km">>,
   border |-> type]

\* the early return of _submitNewWorkout falling through to _resetForm
SubmitReturnsEarlyAfterReset(first) ==
  /\ alerts' = first
  /\ isWorkoutValid' = FALSE
  /\ inputDistance' = ""
  /\ inputDuration' = ""
  /\ inputCadence' = ""
  /\ inputElevation' = ""
  /\ formHidden' = TRUE
  /\ UNCHANGED <<startup, rows, focused, inputType, lastClickedPosition,
                 locations, markers, now, lastClickEvent, formShown,
                 idClock>>

\* _submitNewWorkout, "if (!this._validateWorkoutData()) return;": the first
\* call of the validator raised the alerts in first and returned false
SubmitReturnsEarly(first) ==
  /\ alerts' = first
  /\ isWorkoutValid' = FALSE
  /\ UNCHANGED <<startup, formHidden, rows, focused, inputType, inputs,
                 lastClickedPosition, locations, markers, now,
                 lastClickEvent, formShown, idClock>>

\* _resetForm
resetForm ==
  /\ inputDistance' = ""
  /\ inputDuration' = ""
  /\ inputCadence' = ""
  /\ inputElevation' = ""
  /\ formHidden' = TRUE

\* _submitNewWorkout assigning a one-element array to #locations instead of
\* pushing onto it
SubmitProceedsReplacingList(first) ==
  LET second == validateWorkoutData(inputType, inputDistance, inputDuration,
                  inputCadence, inputElevation, lastClickedPosition)
  IN  /\ Len(locations) < MaxWorkouts
      /\ alerts' = first \o second
      /\ IF second = <<>>
           THEN \E t \in Times :
                  /\ t >= now
                  /\ now' = t
                  /\ isWorkoutValid' = TRUE
                  /\ locations' = <<currentWorkout(inputType,
                       lastClickedPosition, inputDistance, inputDuration,
                       inputCadence, inputElevation, t)>>
                  /\ markers' = Append(markers,
                       addMarkers(lastClickedPosition, inputType,
                         inputDistance))
                  /\ idClock' = <<t>>
           ELSE /\ isWorkoutValid' = FALSE
                /\ UNCHANGED <<now, locations, markers, idClock>>
      /\ resetForm
      /\ UNCHANGED <<startup, rows, focused, inputType, lastClickedPosition,
                     lastClickEvent, formShown>>

\* _submitNewWorkout after the first call of the validator returned true:
\* the validator runs a second time on the same state, then the record is
\* built, pushed and given a marker, and the form is reset
SubmitProceeds(first) ==
  LET second == validateWorkoutData(inputType, inputDistance, inputDuration,
                  inputCadence, inputElevation, lastClickedPosition)
  IN  /\ Len(locations) < MaxWorkouts
      /\ alerts' = first \o second
      /\ IF second = <<>>
           THEN \E t \in Times :
                  /\ t >= now
                  /\ now' = t
                  /\ isWorkoutValid' = TRUE
                  /\ locations' = Append(locations,
                       currentWorkout(inputType, lastClickedPosition,
                         inputDistance, inputDuration, inputCadence,
                         inputElevation, t))
                  /\ markers' = Append(markers,
                       addMarkers(lastClickedPosition, inputType,
                         inputDistance))
                  /\ idClock' = Append(idClock, t)
           ELSE /\ isWorkoutValid' = FALSE
                /\ UNCHANGED <<now, locations, markers, idClock>>
      /\ resetForm
      /\ UNCHANGED <<startup, rows, focused, inputType, lastClickedPosition,
                     lastClickEvent, formShown>>

\* _submitNewWorkout(e)
SubmitNewWorkout ==
  /\ handlersBound
  /\ UNCHANGED durable
  /\ LET first == validateWorkoutData(inputType, inputDistance,
                    inputDuration, inputCadence, inputElevation,
                    lastClickedPosition)
     IN  IF first # <<>>
           THEN SubmitReturnsEarly(first)
           ELSE SubmitProceeds(first)

Next ==
  \/ \E c \in GeoFixes : GeoResolved(c)
  \/ \E err \in GeoErrors : GeoRejected(err)
  \/ \E p \in Positions : OnHandleMapClick(p)
  \/ \E value \in TypeOptions : ChangeType(value)
  \/ TypeIntoInput
  \/ SubmitNewWorkout

Spec == Init /\ [][Next]_vars

\* ------------------------------------------------------------------------
\* The form in front of the validator: the app after a successful startup,
\* holding any text in each numeric input, before the first map click
\* ------------------------------------------------------------------------

InitForm ==
  /\ geo = "resolved"
  /\ current \in GeoFixes
  /\ map = TRUE
  /\ clickBound = TRUE
  /\ handlersBound = TRUE
  /\ console = <<>>
  /\ formHidden = TRUE
  /\ cadenceRowHidden \in BOOLEAN
  /\ elevationRowHidden \in BOOLEAN
  /\ focused = FALSE
  /\ inputType \in TypeOptions
  /\ inputDistance \in FormTexts
  /\ inputDuration \in FormTexts
  /\ inputCadence \in FormTexts
  /\ inputElevation \in FormTexts
  /\ lastClickedPosition = Null
  /\ isWorkoutValid = FALSE
  /\ locations = <<>>
  /\ markers = <<>>
  /\ alerts = <<>>
  /\ now = 0
  /\ lastClickEvent = Null
  /\ formShown = FALSE
  /\ storage = Null
  /\ beforeReload = <<>>
  /\ idClock = <<>>

NextForm ==
  \/ \E p \in Positions : OnHandleMapClick(p)
  \/ \E value \in TypeOptions : ChangeType(value)
  \/ SubmitNewWorkout

SpecForm == InitForm /\ [][NextForm]_vars

\* ------------------------------------------------------------------------
\* Sessions: the page is reloaded while the browser keeps its durable slot
\* ------------------------------------------------------------------------

\* what the durable slot may hold when a session starts: nothing, or a list
\* of entries in the persisted layout (one cycling entry and one entry of an
\* unknown kind)
StoredSlots ==
  {Null,
   <<[kind |-> "cycling", coordinates |-> <<515, -1>>, distanceKm |-> Num(5),
      durationMin |-> Num(25), id |-> 7, elevationGainM |-> Num(10)],
     [kind |-> "swimming", coordinates |-> <<400, 30>>, distanceKm |-> Num(5),
      durationMin |-> Num(25), id |-> 8]>>}

\* the App constructor up to the await in _init, on a page whose form already
\* holds texts and whose origin may hold a stored list
InitSessions ==
  /\ geo = "pending"
  /\ current = Null
  /\ map = FALSE
  /\ clickBound = FALSE
  /\ handlersBound = FALSE
  /\ console = <<>>
  /\ formHidden = TRUE
  /\ cadenceRowHidden \in BOOLEAN
  /\ elevationRowHidden \in BOOLEAN
  /\ focused = FALSE
  /\ inputType \in TypeOptions
  /\ inputDistance \in DistanceTexts
  /\ inputDuration \in DurationTexts
  /\ inputCadence \in CadenceTexts
  /\ inputElevation \in ElevationTexts
  /\ lastClickedPosition = Null
  /\ isWorkoutValid = FALSE
  /\ locations = <<>>
  /\ markers = <<>>
  /\ alerts = <<>>
  /\ now = 0
  /\ lastClickEvent = Null
  /\ formShown = FALSE
  /\ storage \in StoredSlots
  /\ beforeReload = <<>>
  /\ idClock = <<>>

\* the page is reloaded: "new App()" runs again on a fresh document; only the
\* durable slot and the clock carry over
Reload ==
  /\ geo' = "pending"
  /\ current' = Null
  /\ map' = FALSE
  /\ clickBound' = FALSE
  /\ handlersBound' = FALSE
  /\ console' = <<>>
  /\ formHidden' = TRUE
  /\ cadenceRowHidden' \in BOOLEAN
  /\ elevationRowHidden' \in BOOLEAN
  /\ focused' = FALSE
  /\ inputType' \in TypeOptions
  /\ inputDistance' = ""
  /\ inputDuration' = ""
  /\ inputCadence' = ""
  /\ inputElevation' = ""
  /\ lastClickedPosition' = Null
  /\ isWorkoutValid' = FALSE
  /\ locations' = <<>>
  /\ markers' = <<>>
  /\ alerts' = <<>>
  /\ lastClickEvent' = Null
  /\ formShown' = FALSE
  /\ beforeReload' = locations
  /\ idClock' = <<>>
  /\ UNCHANGED <<now, storage>>

NextSessions ==
  \/ \E c \in GeoFixes : GeoResolved(c)
  \/ \E err \in GeoErrors : GeoRejected(err)
  \/ \E p \in Positions : OnHandleMapClick(p)
  \/ \E value \in TypeOptions : ChangeType(value)
  \/ SubmitNewWorkout
  \/ Reload

SpecSessions == InitSessions /\ [][NextSessions]_vars

\* ------------------------------------------------------------------------
\* The select holding a value other than the two workout types
\* ------------------------------------------------------------------------

\* values inputType.value may hold: the two workout types and one other
TypeValues == TypeOptions \cup {"swimming"}

\* the app after a successful startup, with any of these values selected and
\* texts already in the numeric inputs
InitTypes ==
  /\ geo = "resolved"
  /\ current \in GeoFixes
  /\ map = TRUE
  /\ clickBound = TRUE
  /\ handlersBound = TRUE
  /\ console = <<>>
  /\ formHidden = TRUE
  /\ cadenceRowHidden \in BOOLEAN
  /\ elevationRowHidden \in BOOLEAN
  /\ focused = FALSE
  /\ inputType \in TypeValues
  /\ inputDistance \in DistanceTexts
  /\ inputDuration \in DurationTexts
  /\ inputCadence \in CadenceTexts
  /\ inputElevation \in ElevationTexts
  /\ lastClickedPosition = Null
  /\ isWorkoutValid = FALSE
  /\ locations = <<>>
  /\ markers = <<>>
  /\ alerts = <<>>
  /\ now = 0
  /\ lastClickEvent = Null
  /\ formShown = FALSE
  /\ storage = Null
  /\ beforeReload = <<>>
  /\ idClock = <<>>

NextTypes ==
  \/ \E p \in Positions : OnHandleMapClick(p)
  \/ \E value \in TypeValues : ChangeType(value)
  \/ SubmitNewWorkout

SpecTypes == InitTypes /\ [][NextTypes]_vars

\* ------------------------------------------------------------------------
\* Properties
\* ------------------------------------------------------------------------

\* input texts that denote a finite, strictly positive number
PositiveTexts == {"5", "10", "25", "160"}

\* input texts that denote a finite number (the empty input reads as 0)
FiniteTexts == PositiveTexts \cup {"", "0", "-5", "-10"}

\* C1: a submission whose distance or duration is not a finite, strictly
\* positive number is rejected with the distance/duration alert and adds no
\* record, whatever the type, the other fields and the pending location.
C1_BadDistanceOrDurationRejected ==
  [][(SubmitNewWorkout /\ (inputDistance \notin PositiveTexts
                           \/ inputDuration \notin PositiveTexts))
       => (alerts' = <<AlertDistanceDuration>> /\ locations' = locations)]_vars

\* C1 witness: an infinite distance was rejected although every other field
\* was acceptable and a location was pending
C1_Witness ==
  /\ alerts = <<AlertDistanceDuration>>
  /\ inputDistance = "Infinity"
  /\ inputDuration = "5"
  /\ inputCadence = "5"
  /\ inputElevation = "5"
  /\ lastClickedPosition # Null
  /\ locations = <<>>

\* C2: with no location pending, a submission whose numeric fields are valid
\* for its type (running: cadence positive; cycling: elevation finite) is
\* rejected with the no-location alert and the list is unchanged.
C2_NoLocationRejected ==
  [][(/\ SubmitNewWorkout
      /\ lastClickedPosition = Null
      /\ inputDistance \in PositiveTexts
      /\ inputDuration \in PositiveTexts
      /\ inputType = "running" => inputCadence \in PositiveTexts
      /\ inputType = "cycling" => inputElevation \in FiniteTexts)
       => (alerts' = <<AlertLocation>> /\ locations' = locations)]_vars

\* C3: a running submission with valid distance and duration is decided by
\* the cadence input alone: an invalid cadence raises the cadence alert, a
\* valid one lets the submission through to the location rule.
C3_RunningDecidedByCadence ==
  [][(/\ SubmitNewWorkout
      /\ inputType = "running"
      /\ inputDistance \in PositiveTexts
      /\ inputDuration \in PositiveTexts)
       => alerts' = IF inputCadence \notin PositiveTexts
                      THEN <<AlertCadence>>
                    ELSE IF lastClickedPosition = Null
                      THEN <<AlertLocation>>
                    ELSE <<>>]_vars

\* C4: a cycling submission with valid distance and duration and a pending
\* location is accepted for every finite elevation and raises the elevation
\* alert otherwise; the cadence input plays no part.
C4_CyclingDecidedByElevation ==
  [][(/\ SubmitNewWorkout
      /\ inputType = "cycling"
      /\ inputDistance \in PositiveTexts
      /\ inputDuration \in PositiveTexts
      /\ lastClickedPosition # Null)
       => alerts' = IF inputElevation \in FiniteTexts
                      THEN <<>>
                      ELSE <<AlertElevation>>]_vars

\* C5: the alert of a submission is that of the first failing rule in the
\* order distance/duration, type-specific field (cadence for running,
\* elevation for cycling), pending location, and none when no rule fails.
C5_FirstFailingRuleReported ==
  [][SubmitNewWorkout
       => alerts' =
            IF inputDistance \notin PositiveTexts
               \/ inputDuration \notin PositiveTexts
              THEN <<AlertDistanceDuration>>
            ELSE IF inputType = "running" /\ inputCadence \notin PositiveTexts
              THEN <<AlertCadence>>
            ELSE IF inputType = "cycling" /\ inputElevation \notin FiniteTexts
              THEN <<AlertElevation>>
            ELSE IF lastClickedPosition = Null
              THEN <<AlertLocation>>
            ELSE <<>>]_vars

\* C6: a submission that raises an alert leaves the record list, the markers,
\* the pending location, the form's visibility and the four input texts as
\* they were.
C6_RejectionChangesNothing ==
  [][(SubmitNewWorkout /\ alerts' # <<>>)
       => UNCHANGED <<locations, markers, lastClickedPosition, formHidden,
                      inputs>>]_vars

\* C6 witness: a rejected submission on a visible, partly filled form, after
\* a record had been created
C6_Witness ==
  /\ alerts # <<>>
  /\ Len(locations) = 1
  /\ Len(markers) = 1
  /\ ~formHidden
  /\ inputDistance = "5"
  /\ lastClickedPosition # Null

\* C7: from an empty list with (51.5, -0.1) pending, submitting running,
\* distance 5, duration 25, cadence 160 and an empty elevation appends one
\* running record at (51.5, -0.1) with cadence 160 and pace 300.
C7_EndToEndRunning ==
  [][(/\ SubmitNewWorkout
      /\ locations = <<>>
      /\ lastClickedPosition = <<515, -1>>
      /\ inputType = "running"
      /\ inputDistance = "5"
      /\ inputDuration = "25"
      /\ inputCadence = "160"
      /\ inputElevation = "")
       => /\ alerts' = <<>>
          /\ Len(locations') = 1
          /\ locations'[1].cls = "Running"
          /\ locations'[1].coords = <<515, -1>>
          /\ locations'[1].cadence = [k |-> "fin", n |-> 160, d |-> 1]
          /\ locations'[1].pace = [k |-> "fin", n |-> 300, d |-> 1]]_vars

\* C8: a handled change of the select to cycling hides the cadence row and shows the
\* elevation row; a change to running hides the elevation row and shows the
\* cadence row.
C8_ChangeShowsRowOfType ==
  [][(handlersBound /\ inputType' # inputType)
       => /\ inputType' = "cycling"
               => (cadenceRowHidden' /\ ~elevationRowHidden')
          /\ inputType' = "running"
               => (elevationRowHidden' /\ ~cadenceRowHidden')]_vars

\* C9: once the form has been shown, exactly one of the two rows is hidden,
\* and it is the row _updateSelect associates with the selected type.
C9_ExactlyOneRowHidden ==
  formShown =>
    /\ cadenceRowHidden # elevationRowHidden
    /\ cadenceRowHidden = (inputType = "running")
    /\ elevationRowHidden = (inputType = "cycling")

\* C9 witness: after a click, a type change and an accepted submission, one
\* row is hidden and the other shown
C9_Witness ==
  /\ formShown
  /\ Len(locations) = 1
  /\ inputType = "cycling"
  /\ elevationRowHidden
  /\ ~cadenceRowHidden

\* C10: the pending location is the position of the latest click, and a
\* record appended by a submission carries that position.
C10_LatestClickIsPending ==
  [][/\ lastClickedPosition' = lastClickEvent'
     /\ Len(locations') > Len(locations)
          => locations'[Len(locations')].coords = lastClickEvent]_vars

\* C10 witness: two records created at different positions, the second after
\* the pending location had been replaced by later clicks
C10_Witness ==
  /\ Len(locations) = 2
  /\ locations[1].coords = <<515, -1>>
  /\ locations[2].coords = <<400, 30>>
  /\ lastClickedPosition = <<400, 30>>

\* C11: an accepted submission consumes the pending location: after it no
\* location is pending, so a further submission without a new click cannot be
\* accepted.
C11_SubmissionClearsPending ==
  [][(Len(locations') > Len(locations))
       => lastClickedPosition' = Null]_vars

\* C12: every record in the list has a finite, strictly positive distance and
\* a finite, strictly positive duration.
C12_RecordsHavePositiveDistanceAndDuration ==
  \A i \in 1..Len(locations) :
    /\ locations[i].distance.k = "fin" /\ locations[i].distance.n > 0
    /\ locations[i].duration.k = "fin" /\ locations[i].duration.n > 0

\* C12 witness: a record was created from a form holding distance 25 and
\* duration 5
C12_Witness ==
  /\ Len(locations) = 1
  /\ locations[1].distance = [k |-> "fin", n |-> 25, d |-> 1]
  /\ locations[1].duration = [k |-> "fin", n |-> 5, d |-> 1]

\* C13: a running record carries the value of the cadence input at its
\* submission, which is finite and positive; a cycling record carries the
\* value of the elevation input at its submission, which is finite.
C13_RecordCarriesFieldOfItsType ==
  [][(Len(locations') > Len(locations))
       => LET r == locations'[Len(locations')]
          IN  /\ r.cls = "Running"
                   => /\ inputCadence \in PositiveTexts
                      /\ r.cadence = ToNumber(inputCadence)
              /\ r.cls = "Cycling"
                   => /\ inputElevation \in FiniteTexts
                      /\ r.elevationGain = ToNumber(inputElevation)]_vars

C15_RecordsNeverMutated ==
  [][\A i \in 1..Len(locations) :
       /\ i <= Len(locations')
       /\ locations'[i] = locations[i]]_vars

\* C15 witness: a record made at (51.5, -0.1) is still there after a later
\* click put another position in the pending location and a second record was
\* made there
C15_Witness ==
  /\ Len(locations) = 2
  /\ locations[1].coords = <<515, -1>>
  /\ locations[2].coords = <<400, 30>>
  /\ lastClickedPosition = <<515, -1>>

\* the persisted layout of a record list: one entry per record, in order
Persisted(records) ==
  [i \in 1..Len(records) |->
     IF records[i].cls = "Running"
       THEN [kind |-> "running", coordinates |-> records[i].coords,
             distanceKm |-> records[i].distance,
             durationMin |-> records[i].duration, id |-> records[i].id,
             cadence |-> records[i].cadence]
       ELSE [kind |-> "cycling", coordinates |-> records[i].coords,
             distanceKm |-> records[i].distance,
             durationMin |-> records[i].duration, id |-> records[i].id,
             elevationGainM |-> records[i].elevationGain]]

\* C16: an accepted submission appends exactly one record, persists the full
\* list, adds exactly one marker at the record's coordinates, hides the form
\* and empties its four inputs.
C16_AcceptedSubmissionSteps ==
  [][(Len(locations') > Len(locations))
       => /\ Len(locations') = Len(locations) + 1
          /\ storage' = Persisted(locations')
          /\ Len(markers') = Len(markers) + 1
          /\ markers'[Len(markers')].position
               = locations'[Len(locations')].coords
          /\ formHidden'
          /\ inputs' = <<"", "", "", "">>]_vars

\* C17: once a submission has been accepted, the durable slot holds the
\* in-memory list, in order.
C17_SlotHoldsTheList ==
  (locations # <<>>) => storage = Persisted(locations)

\* C18: the records of a session come back after a reload: once startup has
\* completed, the list begins with the records the list held when the page
\* was reloaded, equal in every field, the id included.
C18_ListSurvivesReload ==
  (geo = "resolved")
    => /\ Len(locations) >= Len(beforeReload)
       /\ \A i \in 1..Len(beforeReload) : locations[i] = beforeReload[i]

\* C19: startup loads from the durable slot exactly the entries whose kind is
\* running or cycling, in their stored order, and nothing from an empty slot.
C19_StartupLoadsKnownKinds ==
  [][(geo = "pending" /\ geo' = "resolved")
       => LET Known(e) == e.kind \in {"running", "cycling"}
              kept == SelectSeq(storage, Known)
          IN  /\ Len(locations') = Len(kept)
              /\ \A i \in 1..Len(kept) :
                   /\ locations'[i].coords = kept[i].coordinates
                   /\ locations'[i].id = kept[i].id]_vars

\* C20: the request settles once and is not issued again; once it has settled
\* the submit and change handlers are registered, a rejection has been logged,
\* and the map and its click handler exist exactly when it resolved.
C20_StartupCompletesEitherWay ==
  [][/\ (geo # "pending") => (geo' = geo)
     /\ (geo' # "pending")
          => /\ handlersBound'
             /\ map' = (geo' = "resolved")
             /\ clickBound' = (geo' = "resolved")
             /\ (geo' = "rejected")
                  => /\ Len(console') = 1
                     /\ console'[1][1] = "Location error:"
             /\ (geo' = "resolved") => console' = <<>>]_vars

\* C20 witness: the request was rejected, the rejection logged, and a form
\* submission was then handled without a map
C20_Witness ==
  /\ geo = "rejected"
  /\ console = <<<<"Location error:", "denied">>>>
  /\ ~map
  /\ handlersBound
  /\ alerts = <<AlertLocation>>

\* C21 (as stated): any two distinct records of the list have different ids,
\* whatever the times at which they were created.
C21_IdsAlwaysDiffer ==
  \A i, j \in 1..Len(locations) :
    (i # j) => locations[i].id # locations[j].id

\* C21 (amended): every id is the last six decimal digits of the clock
\* reading at the record's construction, so two distinct records have
\* different ids exactly when their clock readings differ in those digits;
\* records created in the same millisecond, or a multiple of 1,000,000 ms
\* apart, share their id.
C21_IdsDifferUnlessClocksAgree ==
  /\ Len(idClock) = Len(locations)
  /\ \A i \in 1..Len(locations) :
       /\ locations[i].id \in 0..(IdModulus - 1)
       /\ locations[i].id = idClock[i] % IdModulus
  /\ \A i, j \in 1..Len(locations) :
       (i # j) => ((locations[i].id # locations[j].id)
                     <=> (idClock[i] % IdModulus # idClock[j] % IdModulus))

\* C21 witness: two records created one millisecond apart carry different ids
C21_Witness ==
  /\ Len(locations) = 2
  /\ idClock = <<0, 1>>
  /\ locations[1].id = 0
  /\ locations[2].id = 1

\* C22: the record list changes only in a step of the submit handler, and
\* every step leaves the earlier list as a prefix of the later one; a map
\* click and a change of the selected type leave the list as it was.
C22_ListOnlyGrowsBySubmit ==
  [][/\ Len(locations') >= Len(locations)
     /\ SubSeq(locations', 1, Len(locations)) = locations
     /\ (locations' # locations)
          => (SubmitNewWorkout /\ Len(locations') = Len(locations) + 1)
     /\ (lastClickedPosition' # lastClickedPosition \/ inputType' # inputType)
          => locations' = locations]_vars

\* C22 witness: a running and a cycling record in the list, followed by a map
\* click elsewhere that left both in place
C22_Witness ==
  /\ Len(locations) = 2
  /\ locations[1].cls = "Running"
  /\ locations[2].cls = "Cycling"
  /\ ~formHidden
  /\ lastClickedPosition # locations[2].coords

\* C23: a map click on a hidden form reveals it and leaves exactly one
\* type-specific row hidden, the one _updateSelect gives for the selected
\* type; a click on a visible form changes neither the form's visibility nor
\* the rows, the type, the inputs, the list or the markers; after any click
\* the form is visible and the clicked position is pending.
C23_ClickRevealsAndResyncs ==
  [][(\E p \in Positions : OnHandleMapClick(p))
       => /\ ~formHidden'
          /\ lastClickedPosition' \in Positions
          /\ formHidden
               => /\ cadenceRowHidden' # elevationRowHidden'
                  /\ <<cadenceRowHidden', elevationRowHidden'>>
                       = updateSelect(inputType)
          /\ ~formHidden
               => UNCHANGED <<startup, formHidden, rows, inputType, inputs,
                              isWorkoutValid, locations, markers>>
          /\ UNCHANGED <<inputType, inputs, locations, markers>>]_vars

\* C23 witness: a revealed form with its rows in step with the selected type,
\* a distance typed in, and a second click that moved the pending location
C23_Witness ==
  /\ ~formHidden
  /\ focused
  /\ inputType = "cycling"
  /\ elevationRowHidden
  /\ ~cadenceRowHidden
  /\ inputDistance = "5"
  /\ lastClickedPosition = <<400, 30>>
  /\ locations = <<>>

\* C24: as long as the geolocation request is outstanding no handler is
\* registered and no event is handled: the list and the markers are empty, no
\* location is pending, the form stays hidden, no alert is raised, the flag
\* stays false and the two rows keep the visibility they had.
C24_NothingHandledBeforeSettled ==
  [][(geo' = "pending")
       => /\ ~handlersBound'
          /\ ~clickBound'
          /\ ~map'
          /\ locations' = <<>>
          /\ markers' = <<>>
          /\ lastClickedPosition' = Null
          /\ formHidden'
          /\ ~isWorkoutValid'
          /\ alerts' = <<>>
          /\ UNCHANGED rows]_vars

\* C24 witness: the request is still outstanding while the user has filled in
\* the form and picked a type; both rows are still hidden as the markup left
\* them
C24_Witness ==
  /\ geo = "pending"
  /\ inputType = "running"
  /\ inputDistance = "5"
  /\ inputDuration = "25"
  /\ inputCadence = "160"
  /\ inputElevation = "10"
  /\ cadenceRowHidden
  /\ elevationRowHidden

\* C25: once the geolocation request has been rejected there is no map and
\* no click handler, no location is ever pending, the list and the markers
\* stay empty, and every form submission is rejected with exactly one alert.
C25_RejectedStartupAcceptsNothing ==
  [][(geo' = "rejected")
       => /\ ~map'
          /\ ~clickBound'
          /\ lastClickedPosition' = Null
          /\ locations' = <<>>
          /\ markers' = <<>>
          /\ ~isWorkoutValid'
          /\ SubmitNewWorkout => Len(alerts') = 1]_vars

\* C25 witness: after a rejected request, a cycling submission whose numbers
\* are all valid has just been turned down for want of a location
C25_Witness ==
  /\ geo = "rejected"
  /\ inputType = "cycling"
  /\ inputDistance = "5"
  /\ inputDuration = "25"
  /\ inputCadence = "160"
  /\ alerts = <<AlertLocation>>
  /\ locations = <<>>

\* C26: every element of the record list is a running or a cycling record
\* and there are as many markers as records; a submission with any other
\* value selected appends no undefined element and adds no marker.
C26_ListHoldsOnlyRecords ==
  /\ \A i \in 1..Len(locations) : locations[i].cls \in {"Running", "Cycling"}
  /\ Len(markers) = Len(locations)

====
